---- MODULE Spec2Model ----
(***************************************************************************)
(* A model of the motorcycle class scraper: MotorcycleClassScraper          *)
(* (scraper.js) with its extraction loop, normalisation hand-off, remote    *)
(* synchronisation and local persistence.  Every await of the source is a   *)
(* step; what the browser, the remote store and the file system answer is   *)
(* chosen with \E.                                                          *)
(***************************************************************************)
EXTENDS Integers, Sequences, FiniteSets, TLC

\* ---------------------------------------------------------------- bounds
MaxSources == 3
MaxYield == 1
MaxRecords == 23
MaxExisting == 11
MaxAggregate == 2
MaxRunSources == 2
MaxCalls == 2
MaxSaved == 2

\* ------------------------------------------------------ program constants
\* Airtable's request size limit, the literal 10 of the batch loop.
BatchSize == 10

UNDEFINED == "undefined"

VARIABLES
    pc,                \* position of the single thread of control
    sources,           \* scrapeAll's registry: the extractor of each source
    srcIdx,            \* index of the source the for-loop is at
    browser,           \* this.browser: "none", "open", "closed"
    browserCloseCalls, \* number of browser.close() calls
    classes,           \* this.classes, the aggregate of raw records
    invoked,           \* the sources whose fn() was called, in call order
    failed,            \* the sources whose fn() raised into scrapeAll's catch
    tryFailed,         \* the sources whose own catch block ran
    yielded,           \* per source, the number of records evaluate returned
    page,              \* per source, its page: "none", "open", "closed"
    pagesOpened,       \* per source, pages opened by its invocation
    pageCloseCalls,    \* per source, page.close() calls of its invocation
    result,            \* what scrapeAll returned (normalizeData's list)
    apiKey,            \* airtableConfig.apiKey is set
    tz,                \* the process's time zone, in minutes east of UTC
    data,              \* the argument of saveToAirtable
    batches,           \* saveToAirtable's batches
    batchIdx,          \* index of the batch the send loop is at
    jsonArg,           \* the argument of the running saveToJSON call
    log,               \* external effects of the save path, in order
    snapshot,          \* the dated snapshot file
    summary,           \* summary.json
    exitStatus,        \* -1 while running, then the process exit status
    existing,          \* AirtableManager: what getAllClasses returned
    delBatches,        \* AirtableManager: clearOldRecords' batches of ids
    delIdx,            \* AirtableManager: index of the delete batch at hand
    store              \* AirtableManager: the rows of the remote table

vars == <<pc, sources, srcIdx, browser, browserCloseCalls, classes, invoked,
          failed, tryFailed, yielded, page, pagesOpened, pageCloseCalls,
          result, apiKey, tz, data, batches, batchIdx, jsonArg, log,
          snapshot, summary, exitStatus, existing, delBatches, delIdx, store>>

scrapeVars == <<sources, srcIdx, browser, browserCloseCalls, classes, invoked,
                failed, tryFailed, yielded, page, pagesOpened, pageCloseCalls,
                result>>

\* apiKey and tz come from the process environment; nothing writes them.
syncVars == <<apiKey, tz, data, batches, batchIdx, jsonArg, log, snapshot,
              summary>>

mgrVars == <<existing, delBatches, delIdx, store>>

\* ---------------------------------------------------------------- helpers
Range(s) == {s[i] : i \in 1..Len(s)}

Min(a, b) == IF a < b THEN a ELSE b

\* The four extractors the class defines.
Kinds == {"riderite", "msi", "harley", "communityEd"}

\* scrapeMSIRegistration and scrapeHarleyDavidson await page.waitForSelector
\* between navigation and evaluation; the other two do not.
HasWait(kind) == kind \in {"msi", "harley"}

\* The provider each extractor's query writes into its records (the label
\* passed in, for the two extractors that take one).
ProviderOf(kind) ==
    CASE kind = "riderite" -> "RideRite"
      [] kind = "msi" -> "MSI"
      [] kind = "harley" -> "Harley Davidson"
      [] kind = "communityEd" -> "Community Ed"

\* The type each extractor's query writes; scrapeMSIRegistration writes none.
TypeOf(kind) ==
    CASE kind = "riderite" -> "Basic Course"
      [] kind = "msi" -> UNDEFINED
      [] kind = "harley" -> "New Rider Course"
      [] kind = "communityEd" -> "Motorcycle Safety Course"

\* The k records page.evaluate returned for source i, from elements that
\* carry a title and nothing else.  src and n name the record (which
\* source, which element of the page).
RawRecords(i, kind, k) ==
    [j \in 1..k |-> [src |-> i, n |-> j, title |-> "Basic RiderCourse",
                     provider |-> ProviderOf(kind), type |-> TypeOf(kind)]]

\* The for-loop of saveToAirtable that cuts data into slices of 10.
RECURSIVE BatchesFrom(_, _, _)
BatchesFrom(array, i, size) ==
    IF i >= Len(array) THEN <<>>
    ELSE <<SubSeq(array, i + 1, Min(i + size, Len(array)))>>
         \o BatchesFrom(array, i + size, size)

\* A slip in the slice bound: `data.slice(i, i + size + 1)`.
RECURSIVE BatchesFromLong(_, _, _)
BatchesFromLong(array, i, size) ==
    IF i >= Len(array) THEN <<>>
    ELSE <<SubSeq(array, i + 1, Min(i + size + 1, Len(array)))>>
         \o BatchesFromLong(array, i + size, size)

createBatches_LongSlice(array, size) == BatchesFromLong(array, 0, size)

createBatches(array, size) == BatchesFrom(array, 0, size)

\* ------------------------------------------------------------------ text
\* The printable ASCII characters in code order, from 32 (space) to 126
\* (the grave accent, which a string of this language cannot hold, by name).
AsciiPrintable ==
  <<" ", "!", "\"", "#", "$", "%", "&", "'", "(", ")", "*", "+", ",", "-",
    ".", "/", "0", "1", "2", "3", "4", "5", "6", "7", "8", "9", ":", ";",
    "<", "=", ">", "?", "@", "A", "B", "C", "D", "E", "F", "G", "H", "I",
    "J", "K", "L", "M", "N", "O", "P", "Q", "R", "S", "T", "U", "V", "W",
    "X", "Y", "Z", "[", "\\", "]", "^", "_", "grave", "a", "b", "c", "d", "e",
    "f", "g", "h", "i", "j", "k", "l", "m", "n", "o", "p", "q", "r", "s",
    "t", "u", "v", "w", "x", "y", "z", "{", "|", "}", "~">>

\* The code of each character: its place in the order, from 32 on.
CodeTable ==
    [c \in Range(AsciiPrintable) |->
        31 + CHOOSE i \in 1..Len(AsciiPrintable) : AsciiPrintable[i] = c]

\* The UTF-8 byte of a character (Buffer.from(str) of ASCII text).
Code(c) == CodeTable[c]

\* The characters of the texts the model draws its fields from, and of
\* "undefined", which a template literal renders an absent field as.
Chars(s) ==
    CASE s = "" -> <<>>
      [] s = "undefined" ->
          <<"u", "n", "d", "e", "f", "i", "n", "e", "d">>
      [] s = "RideRite" ->
          <<"R", "i", "d", "e", "R", "i", "t", "e">>
      [] s = "MSI" ->
          <<"M", "S", "I">>
      [] s = "Harley Davidson" ->
          <<"H", "a", "r", "l", "e", "y", " ", "D", "a", "v", "i", "d",
            "s", "o", "n">>
      [] s = "Community Ed" ->
          <<"C", "o", "m", "m", "u", "n", "i", "t", "y", " ", "E", "d">>
      [] s = "Basic RiderCourse" ->
          <<"B", "a", "s", "i", "c", " ", "R", "i", "d", "e", "r", "C",
            "o", "u", "r", "s", "e">>
      [] s = "Advanced RiderCourse" ->
          <<"A", "d", "v", "a", "n", "c", "e", "d", " ", "R", "i", "d",
            "e", "r", "C", "o", "u", "r", "s", "e">>
      [] s = "March 15, 2025" ->
          <<"M", "a", "r", "c", "h", " ", "1", "5", ",", " ", "2", "0",
            "2", "5">>
      [] s = "April 15, 2025" ->
          <<"A", "p", "r", "i", "l", " ", "1", "5", ",", " ", "2", "0",
            "2", "5">>
      [] s = "3/15/2025" ->
          <<"3", "/", "1", "5", "/", "2", "0", "2", "5">>
      [] s = "1/1/2025" ->
          <<"1", "/", "1", "/", "2", "0", "2", "5">>
      [] s = "2025-03-15" ->
          <<"2", "0", "2", "5", "-", "0", "3", "-", "1", "5">>
      [] s = "2025-04-15" ->
          <<"2", "0", "2", "5", "-", "0", "4", "-", "1", "5">>
      [] s = "2025-01-01" ->
          <<"2", "0", "2", "5", "-", "0", "1", "-", "0", "1">>
      [] s = "TBD" ->
          <<"T", "B", "D">>
      [] s = "$350" ->
          <<"$", "3", "5", "0">>
      [] s = "$299.99" ->
          <<"$", "2", "9", "9", ".", "9", "9">>
      [] s = "Free" ->
          <<"F", "r", "e", "e">>

IsDigit(c) == c \in {"0", "1", "2", "3", "4", "5", "6", "7", "8", "9"}

DigitValue(c) == Code(c) - Code("0")

\* The character of the digit k.
DigitChar(k) == AsciiPrintable[Code("0") - 31 + k]

\* The values of JavaScript the normalizer computes: null, a string (its
\* characters) and a number (a price, in cents).
Null == [kind |-> "null"]

Str(cs) == [kind |-> "string", chars |-> cs]

Num(c) == [kind |-> "number", cents |-> c]

\* cls.f: the field of a raw record, undefined when the record has none.
Field(cls, f) == IF f \in DOMAIN cls THEN cls[f] ELSE UNDEFINED

\* ---------------------------------------------------------------- generateId
\* The base64 alphabet of Buffer's toString('base64').
Base64Alphabet ==
  <<"A", "B", "C", "D", "E", "F", "G", "H", "I", "J", "K", "L", "M", "N",
    "O", "P", "Q", "R", "S", "T", "U", "V", "W", "X", "Y", "Z", "a", "b",
    "c", "d", "e", "f", "g", "h", "i", "j", "k", "l", "m", "n", "o", "p",
    "q", "r", "s", "t", "u", "v", "w", "x", "y", "z", "0", "1", "2", "3",
    "4", "5", "6", "7", "8", "9", "+", "/">>

Sextet(v) == Base64Alphabet[v + 1]

\* toString('base64'): every three bytes give four characters; one or two
\* bytes left over give two or three characters and padding.
RECURSIVE Base64(_)
Base64(bytes) ==
    IF Len(bytes) = 0 THEN <<>>
    ELSE IF Len(bytes) = 1
    THEN <<Sextet(bytes[1] \div 4), Sextet((bytes[1] % 4) * 16), "=", "=">>
    ELSE IF Len(bytes) = 2
    THEN <<Sextet(bytes[1] \div 4),
           Sextet((bytes[1] % 4) * 16 + bytes[2] \div 16),
           Sextet((bytes[2] % 16) * 4), "=">>
    ELSE <<Sextet(bytes[1] \div 4),
           Sextet((bytes[1] % 4) * 16 + bytes[2] \div 16),
           Sextet((bytes[2] % 16) * 4 + bytes[3] \div 64),
           Sextet(bytes[3] % 64)>>
         \o Base64(SubSeq(bytes, 4, Len(bytes)))

\* str.slice(0, n)
SliceTo(cs, n) == SubSeq(cs, 1, Min(n, Len(cs)))

\* `${cls.provider}-${cls.title}-${cls.date}` in base64, cut to 12
\* characters.
\* The texts a provider, title or date field takes here (those of Chars).
KnownTexts ==
    {"", UNDEFINED, "RideRite", "MSI", "Harley Davidson", "Community Ed",
     "Basic RiderCourse", "Advanced RiderCourse", "March 15, 2025",
     "April 15, 2025", "3/15/2025", "1/1/2025", "2025-03-15", "2025-04-15",
     "2025-01-01", "TBD", "$350", "$299.99", "Free"}

\* The id of a provider, a title and a date: the template string's bytes,
\* base64-encoded, then the first 12 characters.  Tabulated over the known
\* texts, so that each id is encoded once.
IdTable ==
    [p \in KnownTexts, t \in KnownTexts, d \in KnownTexts |->
        LET str == Chars(p) \o <<"-">> \o Chars(t) \o <<"-">> \o Chars(d)
        IN  SliceTo(Base64([i \in 1..Len(str) |-> Code(str[i])]), 12)]

generateId(cls) ==
    IdTable[Field(cls, "provider"), Field(cls, "title"), Field(cls, "date")]

\* ----------------------------------------------------------------- parseDate
\* dateStr.replace(/[^\d\/\-\s]/g, ''): digits, slashes, dashes and white
\* space stay.
Cleaned(cs) ==
    LET Kept(c) == IsDigit(c) \/ c \in {"/", "-", " "}
    IN  SelectSeq(cs, Kept)

\* What `new Date(text)` holds: no date, or a day of the calendar read as
\* UTC midnight or as midnight of the process's time zone.
InvalidDate == [valid |-> FALSE, y |-> 0, m |-> 0, d |-> 0, utc |-> FALSE]

\* The number a run of digits at the head of cs spells, with what follows.
RECURSIVE ReadNumber(_, _)
ReadNumber(cs, acc) ==
    IF cs # <<>> /\ IsDigit(Head(cs))
    THEN ReadNumber(Tail(cs), acc * 10 + DigitValue(Head(cs)))
    ELSE <<acc, cs>>

AllDigits(cs) == \A i \in 1..Len(cs) : IsDigit(cs[i])

\* The date-only forms of the ISO format, which the engine reads as UTC:
\* YYYY, YYYY-MM, YYYY-MM-DD.
IsIsoDateText(cs) ==
    /\ Len(cs) \in {4, 7, 10}
    /\ AllDigits(SubSeq(cs, 1, 4))
    /\ Len(cs) >= 7 => cs[5] = "-" /\ AllDigits(SubSeq(cs, 6, 7))
    /\ Len(cs) = 10 => cs[8] = "-" /\ AllDigits(SubSeq(cs, 9, 10))

IsoComponents(cs) ==
    <<ReadNumber(SubSeq(cs, 1, 4), 0)[1]>>
    \o (IF Len(cs) >= 7 THEN <<ReadNumber(SubSeq(cs, 6, 7), 0)[1]>> ELSE <<>>)
    \o (IF Len(cs) = 10 THEN <<ReadNumber(SubSeq(cs, 9, 10), 0)[1]>> ELSE <<>>)

\* The engine's fallback reader of other texts, over the characters the
\* cleaning leaves: each number goes to the day composer, which takes three
\* at most, and one dash after a number is skipped; any other dash once a
\* number was read ends the reading; slashes and white space are passed.
RECURSIVE LegacyScan(_, _)
LegacyScan(cs, comp) ==
    IF cs = <<>> THEN [ok |-> TRUE, comp |-> comp]
    ELSE IF IsDigit(Head(cs))
    THEN LET r == ReadNumber(cs, 0)
             after == IF r[2] # <<>> /\ Head(r[2]) = "-"
                      THEN Tail(r[2]) ELSE r[2]
         IN  IF Len(comp) = 3 THEN [ok |-> FALSE, comp |-> comp]
             ELSE LegacyScan(after, Append(comp, r[1]))
    ELSE IF Head(cs) = "-" /\ comp # <<>>
    THEN [ok |-> FALSE, comp |-> comp]
    ELSE LegacyScan(Tail(cs), comp)

IsDay(x) == x >= 1 /\ x <= 31

IsMonth(x) == x >= 1 /\ x <= 12

\* The day composer: missing numbers count as 1; the numbers are year,
\* month, day in the ISO form or when the first cannot be a day, and month,
\* day, year otherwise, a year below 100 being of 2000 or 1900.
DayOf(comp, iso) ==
    IF Len(comp) < 1 THEN InvalidDate
    ELSE LET c == [i \in 1..3 |-> IF i <= Len(comp) THEN comp[i] ELSE 1]
             ymd == iso \/ ~IsDay(c[1])
             yr == IF ymd THEN c[1] ELSE c[3]
             month == IF ymd THEN c[2] ELSE c[1]
             day == IF ymd THEN c[3] ELSE c[2]
             year == IF iso THEN yr
                     ELSE IF yr >= 0 /\ yr <= 49 THEN yr + 2000
                     ELSE IF yr >= 50 /\ yr <= 99 THEN yr + 1900
                     ELSE yr
         IN  IF ~IsMonth(month) \/ ~IsDay(day) THEN InvalidDate
             ELSE [valid |-> TRUE, y |-> year, m |-> month, d |-> day,
                   utc |-> iso]

\* new Date(text)
NewDate(cs) ==
    IF IsIsoDateText(cs) THEN DayOf(IsoComponents(cs), TRUE)
    ELSE LET s == LegacyScan(cs, <<>>)
         IN  IF s.ok THEN DayOf(s.comp, FALSE) ELSE InvalidDate

IsLeap(y) == (y % 4 = 0 /\ y % 100 # 0) \/ y % 400 = 0

DaysInMonth(y, m) ==
    IF m = 2 THEN (IF IsLeap(y) THEN 29 ELSE 28)
    ELSE IF m \in {4, 6, 9, 11} THEN 30 ELSE 31

\* A day number past the end of its month counts on into the next month.
MakeDay(y, m, d) ==
    IF d <= DaysInMonth(y, m) THEN [y |-> y, m |-> m, d |-> d]
    ELSE IF m = 12 THEN [y |-> y + 1, m |-> 1, d |-> d - DaysInMonth(y, m)]
    ELSE [y |-> y, m |-> m + 1, d |-> d - DaysInMonth(y, m)]

PreviousDay(t) ==
    IF t.d > 1 THEN [t EXCEPT !.d = t.d - 1]
    ELSE IF t.m > 1
    THEN [y |-> t.y, m |-> t.m - 1, d |-> DaysInMonth(t.y, t.m - 1)]
    ELSE [y |-> t.y - 1, m |-> 12, d |-> 31]

\* The digits of k, at least `width` of them.
RECURSIVE Padded(_, _)
Padded(k, width) ==
    IF k < 10 /\ width <= 1 THEN <<DigitChar(k)>>
    ELSE Append(Padded(k \div 10, width - 1), DigitChar(k % 10))

\* date.toISOString().split('T')[0]: the day of the UTC calendar on which
\* the instant falls.  Midnight of a zone east of Greenwich falls on the
\* day before; a year past 9999 is written with a sign and six digits.
IsoDatePart(date, zone) ==
    LET t == MakeDay(date.y, date.m, date.d)
        u == IF date.utc \/ zone <= 0 THEN t ELSE PreviousDay(t)
        year == IF u.y <= 9999 THEN Padded(u.y, 4)
                ELSE <<"+">> \o Padded(u.y, 6)
    IN  year \o <<"-">> \o Padded(u.m, 2) \o <<"-">> \o Padded(u.d, 2)

\* parseDate(dateStr) in a process whose zone is `zone` minutes east of UTC.
parseDateIn(dateStr, zone) ==
    IF dateStr \in {UNDEFINED, ""} THEN Null
    ELSE LET date == NewDate(Cleaned(Chars(dateStr)))
         IN  IF date.valid THEN Str(IsoDatePart(date, zone)) ELSE Null

parseDate(dateStr) == parseDateIn(dateStr, tz)

\* ---------------------------------------------------------------- parsePrice
\* priceStr.match(/\$(\d+(?:\.\d{2})?)/) and parseFloat of the group: the
\* first dollar sign that a digit follows, its digits, and a point with two
\* digits when they come next.
parsePrice(priceStr) ==
    IF priceStr \in {UNDEFINED, ""} THEN Null
    ELSE LET cs == Chars(priceStr)
             at == {i \in 1..(Len(cs) - 1) : cs[i] = "$" /\ IsDigit(cs[i + 1])}
         IN  IF at = {} THEN Null
             ELSE LET i == CHOOSE k \in at : \A j \in at : k <= j
                      r == ReadNumber(SubSeq(cs, i + 1, Len(cs)), 0)
                      rest == r[2]
                      cents == IF /\ Len(rest) >= 3
                                  /\ rest[1] = "."
                                  /\ IsDigit(rest[2]) /\ IsDigit(rest[3])
                               THEN DigitValue(rest[2]) * 10 + DigitValue(rest[3])
                               ELSE 0
                  IN  Num(r[1] * 100 + cents)

\* A default that stands in for an absent field only (`cls.x ?? default`).
OrDefault_AbsentOnly(v, d) == IF v = UNDEFINED THEN d ELSE v

\* cls.x || default: the default stands in for an absent field and for the
\* empty string.
OrDefault(v, d) == IF v \in {UNDEFINED, ""} THEN d ELSE v

\* `new Date().toISOString()` at the time of the call.
Now == "2025-03-01T12:00:00.000Z"

\* The canonical record of one raw record (src and n, which name the raw
\* record, are carried along).
normalizeRecord(cls) ==
    [src |-> cls.src, n |-> cls.n,
     id |-> generateId(cls),
     title |-> OrDefault(Field(cls, "title"), "Motorcycle Safety Course"),
     provider |-> OrDefault(Field(cls, "provider"), "Unknown"),
     date |-> parseDate(Field(cls, "date")),
     time |-> OrDefault(Field(cls, "time"), ""),
     location |-> OrDefault(Field(cls, "location"), "Southern California"),
     price |-> parsePrice(Field(cls, "price")),
     type |-> OrDefault(Field(cls, "type"), "Motorcycle Course"),
     link |-> OrDefault(Field(cls, "link"), ""),
     lastUpdated |-> Now,
     region |-> "Southern California"]

\* A normalizer that leaves out the records without a title.
normalizeData_DropsUntitled(cs) ==
    LET Titled(cls) == Field(cls, "title") \notin {UNDEFINED, ""}
        kept == SelectSeq(cs, Titled)
    IN  [i \in 1..Len(kept) |-> normalizeRecord(kept[i])]

\* this.classes.map(cls => ({...}))
normalizeData(cs) == [i \in 1..Len(cs) |-> normalizeRecord(cs[i])]

\* One entry of the effect log.
Event(op, body, res) == [op |-> op, body |-> body, res |-> res]

NoFile == [state |-> "absent", content |-> <<>>]

\* The summary artifact saveToJSON builds from its argument.
SummaryOf(d) ==
    [totalClasses |-> Len(d),
     providers |-> {d[i].provider : i \in 1..Len(d)},
     sampleClass |-> IF Len(d) > 0 THEN <<d[1]>> ELSE <<>>]

\* ------------------------------------------------------------ initial state
\* The registry scrapeAll builds: one source, RideRite.
Registry == <<"riderite">>

\* Registries over the extractors of the class, for the statements made of
\* any registry.
Registries == UNION {[1..n -> Kinds] : n \in 0..MaxSources}

\* A list of n canonical records, as normalizeData returns them.
CanonicalList(n) == normalizeData(RawRecords(1, "riderite", n))

\* A scraper with the aggregate cs, in a process of one of the zones, and
\* a remote table of `rows` rows; nothing has run.
Started(reg, keys, cs, zones, rows) ==
    /\ sources = reg
    /\ srcIdx = 1
    /\ browser = "none"
    /\ browserCloseCalls = 0
    /\ classes = cs
    /\ invoked = <<>>
    /\ failed = {}
    /\ tryFailed = {}
    /\ yielded = [i \in 1..Len(reg) |-> 0]
    /\ page = [i \in 1..Len(reg) |-> "none"]
    /\ pagesOpened = [i \in 1..Len(reg) |-> 0]
    /\ pageCloseCalls = [i \in 1..Len(reg) |-> 0]
    /\ result = <<>>
    /\ apiKey \in keys
    /\ tz \in zones
    /\ batches = <<>>
    /\ batchIdx = 1
    /\ jsonArg = <<>>
    /\ log = <<>>
    /\ snapshot = NoFile
    /\ summary = NoFile
    /\ exitStatus = -1
    /\ existing = <<>>
    /\ delBatches = <<>>
    /\ delIdx = 1
    /\ store = [old |-> 1..rows, new |-> <<>>]

\* The state after `new MotorcycleClassScraper()`, before anything runs.
\* The runs that start here read no date, so their zone is left at UTC.
Constructed(reg, keys) == Started(reg, keys, <<>>, {0}, 0)

\* main() run with the registry of the source.
Init ==
    /\ pc = "launch"
    /\ data = <<>>
    /\ Constructed(Registry, BOOLEAN)

\* scrapeAll() run with any registry (it never reads the API key).
InitScrape ==
    /\ pc = "launch"
    /\ data = <<>>
    /\ \E reg \in Registries : Constructed(reg, {FALSE})

\* saveToAirtable(records) called on any list of up to MaxRecords canonical
\* records.
InitSync ==
    /\ pc = "sync"
    /\ \E n \in 0..MaxRecords : data = CanonicalList(n)
    /\ Constructed(<<>>, BOOLEAN)

\* ------------------------------------------------------------------ init()
\* puppeteer.launch resolves or rejects; a rejection leaves scrapeAll through
\* its caller's catch.
Launch ==
    /\ pc = "launch"
    /\ \E ok \in BOOLEAN :
          IF ok THEN browser' = "open" /\ pc' = "loop"
                ELSE browser' = browser /\ pc' = "scrapeRaised"
    /\ UNCHANGED <<sources, srcIdx, browserCloseCalls, classes, invoked,
                   failed, tryFailed, yielded, page, pagesOpened,
                   pageCloseCalls, result, exitStatus>>
    /\ UNCHANGED syncVars
    /\ UNCHANGED mgrVars

\* ------------------------------------------------------- scrapeAll's loop
\* `await source.fn()` for the next source of the registry.
InvokeSource ==
    /\ pc = "loop"
    /\ srcIdx <= Len(sources)
    /\ invoked' = Append(invoked, srcIdx)
    /\ pc' = "newPage"
    /\ UNCHANGED <<sources, srcIdx, browser, browserCloseCalls, classes,
                   failed, tryFailed, yielded, page, pagesOpened,
                   pageCloseCalls, result, exitStatus>>
    /\ UNCHANGED syncVars
    /\ UNCHANGED mgrVars

\* source.fn() resolved: the counts are logged and the loop goes on.
SourceReturned ==
    /\ pc = "srcReturned"
    /\ srcIdx' = srcIdx + 1
    /\ pc' = "loop"
    /\ UNCHANGED <<sources, browser, browserCloseCalls, classes, invoked,
                   failed, tryFailed, yielded, page, pagesOpened,
                   pageCloseCalls, result, exitStatus>>
    /\ UNCHANGED syncVars
    /\ UNCHANGED mgrVars

\* A catch that rethrows: the first failing source ends scrapeAll.
SourceCatch_Rethrows ==
    /\ pc = "srcRaised"
    /\ failed' = failed \cup {srcIdx}
    /\ srcIdx' = srcIdx + 1
    /\ pc' = "scrapeRaised"
    /\ UNCHANGED <<sources, browser, browserCloseCalls, classes, invoked,
                   tryFailed, yielded, page, pagesOpened, pageCloseCalls,
                   result, exitStatus>>
    /\ UNCHANGED syncVars
    /\ UNCHANGED mgrVars

\* source.fn() rejected: scrapeAll's catch logs it and the loop goes on.
SourceCatch ==
    /\ pc = "srcRaised"
    /\ failed' = failed \cup {srcIdx}
    /\ srcIdx' = srcIdx + 1
    /\ pc' = "loop"
    /\ UNCHANGED <<sources, browser, browserCloseCalls, classes, invoked,
                   tryFailed, yielded, page, pagesOpened, pageCloseCalls,
                   result, exitStatus>>
    /\ UNCHANGED syncVars
    /\ UNCHANGED mgrVars

\* The loop is over: `await this.browser.close()`.  Closing the session
\* closes the pages still open in it.  A rejection leaves scrapeAll, and the
\* session as it was: open.
BrowserClose ==
    /\ pc = "loop"
    /\ srcIdx > Len(sources)
    /\ browserCloseCalls' = browserCloseCalls + 1
    /\ \E ok \in BOOLEAN :
          IF ok
          THEN /\ browser' = "closed"
               /\ page' = [i \in DOMAIN page |->
                             IF page[i] = "open" THEN "closed" ELSE page[i]]
               /\ pc' = "normalize"
          ELSE /\ UNCHANGED <<browser, page>>
               /\ pc' = "scrapeRaised"
    /\ UNCHANGED <<sources, srcIdx, classes, invoked, failed, tryFailed,
                   yielded, pagesOpened, pageCloseCalls, result, exitStatus>>
    /\ UNCHANGED syncVars
    /\ UNCHANGED mgrVars

\* `return this.normalizeData()`.
Normalize ==
    /\ pc = "normalize"
    /\ result' = normalizeData(classes)
    /\ pc' = "scrapeReturned"
    /\ UNCHANGED <<sources, srcIdx, browser, browserCloseCalls, classes,
                   invoked, failed, tryFailed, yielded, page, pagesOpened,
                   pageCloseCalls, exitStatus>>
    /\ UNCHANGED syncVars
    /\ UNCHANGED mgrVars

\* ------------------------------------------------------------ extractors
\* `const page = await this.browser.newPage()`, before the try block: a
\* rejection leaves the extractor.
NewPage ==
    /\ pc = "newPage"
    /\ \E ok \in BOOLEAN :
          IF ok
          THEN /\ page' = [page EXCEPT ![srcIdx] = "open"]
               /\ pagesOpened' = [pagesOpened EXCEPT ![srcIdx] = @ + 1]
               /\ pc' = "goto"
          ELSE /\ UNCHANGED <<page, pagesOpened>>
               /\ pc' = "srcRaised"
    /\ UNCHANGED <<sources, srcIdx, browser, browserCloseCalls, classes,
                   invoked, failed, tryFailed, yielded, pageCloseCalls,
                   result, exitStatus>>
    /\ UNCHANGED syncVars
    /\ UNCHANGED mgrVars

\* An extractor without the finally block: a failed navigation returns
\* from the catch with the page left as it is.
Goto_NoFinally ==
    /\ pc = "goto"
    /\ \E ok \in BOOLEAN :
          IF ok
          THEN /\ pc' = IF HasWait(sources[srcIdx]) THEN "wait" ELSE "evaluate"
               /\ UNCHANGED tryFailed
          ELSE /\ pc' = "srcReturned"
               /\ tryFailed' = tryFailed \cup {srcIdx}
    /\ UNCHANGED <<sources, srcIdx, browser, browserCloseCalls, classes,
                   invoked, failed, yielded, page, pagesOpened,
                   pageCloseCalls, result, exitStatus>>
    /\ UNCHANGED syncVars
    /\ UNCHANGED mgrVars

\* `await page.goto(...)`; a rejection (a timeout) goes to catch, then finally.
Goto ==
    /\ pc = "goto"
    /\ \E ok \in BOOLEAN :
          IF ok
          THEN /\ pc' = IF HasWait(sources[srcIdx]) THEN "wait" ELSE "evaluate"
               /\ UNCHANGED tryFailed
          ELSE /\ pc' = "close"
               /\ tryFailed' = tryFailed \cup {srcIdx}
    /\ UNCHANGED <<sources, srcIdx, browser, browserCloseCalls, classes,
                   invoked, failed, yielded, page, pagesOpened,
                   pageCloseCalls, result, exitStatus>>
    /\ UNCHANGED syncVars
    /\ UNCHANGED mgrVars

\* `await page.waitForSelector(...)` of scrapeMSIRegistration and
\* scrapeHarleyDavidson.
WaitForSelector ==
    /\ pc = "wait"
    /\ \E ok \in BOOLEAN :
          IF ok
          THEN pc' = "evaluate" /\ UNCHANGED tryFailed
          ELSE pc' = "close" /\ tryFailed' = tryFailed \cup {srcIdx}
    /\ UNCHANGED <<sources, srcIdx, browser, browserCloseCalls, classes,
                   invoked, failed, yielded, page, pagesOpened,
                   pageCloseCalls, result, exitStatus>>
    /\ UNCHANGED syncVars
    /\ UNCHANGED mgrVars

\* An extractor that puts its records at the front of the aggregate
\* (`unshift` for `push`).
Evaluate_Unshift ==
    /\ pc = "evaluate"
    /\ \/ \E k \in 0..MaxYield :
            /\ yielded' = [yielded EXCEPT ![srcIdx] = k]
            /\ classes' = RawRecords(srcIdx, sources[srcIdx], k) \o classes
            /\ UNCHANGED tryFailed
       \/ /\ tryFailed' = tryFailed \cup {srcIdx}
          /\ UNCHANGED <<yielded, classes>>
    /\ pc' = "close"
    /\ UNCHANGED <<sources, srcIdx, browser, browserCloseCalls, invoked,
                   failed, page, pagesOpened, pageCloseCalls, result,
                   exitStatus>>
    /\ UNCHANGED syncVars
    /\ UNCHANGED mgrVars

\* `const classes = await page.evaluate(...)` followed by
\* `this.classes.push(...classes)`; a rejection of evaluate (a query that
\* throws in the page, as one naming a variable the page does not define)
\* goes to catch with nothing pushed.
Evaluate ==
    /\ pc = "evaluate"
    /\ \/ \E k \in 0..MaxYield :
            /\ yielded' = [yielded EXCEPT ![srcIdx] = k]
            /\ classes' = classes \o RawRecords(srcIdx, sources[srcIdx], k)
            /\ UNCHANGED tryFailed
       \/ /\ tryFailed' = tryFailed \cup {srcIdx}
          /\ UNCHANGED <<yielded, classes>>
    /\ pc' = "close"
    /\ UNCHANGED <<sources, srcIdx, browser, browserCloseCalls, invoked,
                   failed, page, pagesOpened, pageCloseCalls, result,
                   exitStatus>>
    /\ UNCHANGED syncVars
    /\ UNCHANGED mgrVars

\* finally: `await page.close()`.  A rejection leaves the extractor, and
\* the page as it was: open.
ClosePage ==
    /\ pc = "close"
    /\ pageCloseCalls' = [pageCloseCalls EXCEPT ![srcIdx] = @ + 1]
    /\ \E ok \in BOOLEAN :
          IF ok
          THEN page' = [page EXCEPT ![srcIdx] = "closed"] /\ pc' = "srcReturned"
          ELSE page' = page /\ pc' = "srcRaised"
    /\ UNCHANGED <<sources, srcIdx, browser, browserCloseCalls, classes,
                   invoked, failed, tryFailed, yielded, pagesOpened, result,
                   exitStatus>>
    /\ UNCHANGED syncVars
    /\ UNCHANGED mgrVars

NextScrape ==
    \/ Launch
    \/ InvokeSource
    \/ NewPage
    \/ Goto
    \/ WaitForSelector
    \/ Evaluate
    \/ ClosePage
    \/ SourceReturned
    \/ SourceCatch
    \/ BrowserClose
    \/ Normalize

SpecScrape == InitScrape /\ [][NextScrape]_vars

\* ----------------------------------------------------------- normalizeData
\* The fields an extractor may write into a raw record.
Fields == {"title", "date", "time", "location", "price", "link", "provider",
           "type"}

\* What elements of a page can carry: titles, dates in several notations
\* and none ("TBD"), prices and none ("Free"), empty texts.
Samples ==
  <<[title |-> "Basic RiderCourse", date |-> "March 15, 2025",
     time |-> "9:00 AM", location |-> "Irvine", price |-> "$350",
     link |-> "https://shopriderite.net/basic", provider |-> "RideRite",
     type |-> "Basic Course"],
    [title |-> "Advanced RiderCourse", date |-> "March 15, 2025",
     time |-> "9:00 AM", location |-> "Irvine", price |-> "$350",
     link |-> "https://shopriderite.net/basic", provider |-> "RideRite",
     type |-> "Basic Course"],
    [title |-> "Basic RiderCourse", date |-> "April 15, 2025",
     time |-> "9:00 AM", location |-> "Irvine", price |-> "$350",
     link |-> "https://shopriderite.net/basic", provider |-> "RideRite",
     type |-> "Basic Course"],
    [title |-> "Basic RiderCourse", date |-> "3/15/2025",
     time |-> "", location |-> "Anaheim", price |-> "$299.99",
     link |-> "", provider |-> "MSI", type |-> "Motorcycle Safety Course"],
    [title |-> "Advanced RiderCourse", date |-> "2025-03-15",
     time |-> "1:00 PM", location |-> "", price |-> "Free",
     link |-> "", provider |-> "Community Ed", type |-> ""],
    [title |-> "", date |-> "TBD",
     time |-> "", location |-> "Anaheim", price |-> "",
     link |-> "", provider |-> "Harley Davidson",
     type |-> "New Rider Course"],
    [title |-> "Basic RiderCourse", date |-> "1/1/2025",
     time |-> "9:00 AM", location |-> "Irvine", price |-> "$350",
     link |-> "", provider |-> "", type |-> "Basic Course"],
    [title |-> "Advanced RiderCourse", date |-> "",
     time |-> "9:00 AM", location |-> "Irvine", price |-> "$299.99",
     link |-> "", provider |-> "MSI", type |-> "Basic Course"]>>

\* The j-th raw record of an aggregate: sample v without the fields of
\* `absent` (page.evaluate hands over no field whose value is undefined).
RawOf(absent, v, j) ==
    [f \in {"src", "n"} \cup (Fields \ absent) |->
        IF f = "src" THEN 1 ELSE IF f = "n" THEN j ELSE Samples[v][f]]

\* Zones a process may run in: Los Angeles (winter), UTC, Central Europe.
TimeZones == {-480, 0, 60}

\* normalizeData() called on an aggregate of up to MaxAggregate raw
\* records, with any set of fields absent, in a process of any zone.
InitNorm ==
    /\ pc = "normalize"
    /\ data = <<>>
    /\ \E absent \in SUBSET Fields, n \in 0..MaxAggregate :
          \E vs \in [1..n -> 1..Len(Samples)] :
             Started(<<>>, {FALSE},
                     [j \in 1..n |-> RawOf(absent, vs[j], j)], TimeZones, 0)

NextNorm == Normalize

SpecNorm == InitNorm /\ [][NextNorm]_vars

\* ---------------------------------------------------------- saveToJSON
\* A call of saveToJSON(d): control enters the function.
CallSaveToJSON(d) ==
    /\ jsonArg' = d
    /\ log' = Append(log, Event("SAVE", d, ""))
    /\ pc' = "jsonSnapshot"

\* What a rejected fs.writeFile leaves of the file: it was not opened (the
\* file is as before) or the write stopped part-way (the file was truncated).
AfterFailedWrite(file) == {file, [state |-> "partial", content |-> <<>>]}

\* A saveToJSON without its catch: a rejected snapshot write raises through
\* the caller into main's catch.
WriteSnapshot_NoCatch ==
    /\ pc = "jsonSnapshot"
    /\ \E ok \in BOOLEAN :
          IF ok
          THEN /\ snapshot' = [state |-> "written", content |-> jsonArg]
               /\ log' = Append(log, Event("WRITE", jsonArg, "snapshot"))
               /\ pc' = "jsonSummary"
          ELSE /\ snapshot' \in AfterFailedWrite(snapshot)
               /\ log' = Append(log, Event("WRITEFAIL", jsonArg, "snapshot"))
               /\ pc' = "scrapeRaised"
    /\ UNCHANGED <<apiKey, tz, data, batches, batchIdx, jsonArg, summary,
                   exitStatus>>
    /\ UNCHANGED scrapeVars
    /\ UNCHANGED mgrVars

\* A snapshot write that opens the file for appending: what the file held
\* stays in front of the new list.
WriteSnapshot_Appends ==
    /\ pc = "jsonSnapshot"
    /\ \E ok \in BOOLEAN :
          IF ok
          THEN /\ snapshot' = [state |-> "written",
                               content |-> snapshot.content \o jsonArg]
               /\ log' = Append(log, Event("WRITE", jsonArg, "snapshot"))
               /\ pc' = "jsonSummary"
          ELSE /\ snapshot' \in AfterFailedWrite(snapshot)
               /\ log' = Append(log, Event("WRITEFAIL", jsonArg, "snapshot"))
               /\ pc' = "saved"
    /\ UNCHANGED <<apiKey, tz, data, batches, batchIdx, jsonArg, summary,
                   exitStatus>>
    /\ UNCHANGED scrapeVars
    /\ UNCHANGED mgrVars

\* `await fs.writeFile(filename, JSON.stringify(data, null, 2))`; a rejection
\* goes to catch, which logs, and saveToJSON returns.
WriteSnapshot ==
    /\ pc = "jsonSnapshot"
    /\ \E ok \in BOOLEAN :
          IF ok
          THEN /\ snapshot' = [state |-> "written", content |-> jsonArg]
               /\ log' = Append(log, Event("WRITE", jsonArg, "snapshot"))
               /\ pc' = "jsonSummary"
          ELSE /\ snapshot' \in AfterFailedWrite(snapshot)
               /\ log' = Append(log, Event("WRITEFAIL", jsonArg, "snapshot"))
               /\ pc' = "saved"
    /\ UNCHANGED <<apiKey, tz, data, batches, batchIdx, jsonArg, summary,
                   exitStatus>>
    /\ UNCHANGED scrapeVars
    /\ UNCHANGED mgrVars

\* `await fs.writeFile('summary.json', ...)`; saveToJSON returns either way.
WriteSummary ==
    /\ pc = "jsonSummary"
    /\ \E ok \in BOOLEAN :
          IF ok
          THEN /\ summary' = [state |-> "written",
                              content |-> <<SummaryOf(jsonArg)>>]
               /\ log' = Append(log, Event("WRITE", jsonArg, "summary"))
          ELSE /\ summary' \in AfterFailedWrite(summary)
               /\ log' = Append(log, Event("WRITEFAIL", jsonArg, "summary"))
    /\ pc' = "saved"
    /\ UNCHANGED <<apiKey, tz, data, batches, batchIdx, jsonArg, snapshot,
                   exitStatus>>
    /\ UNCHANGED scrapeVars
    /\ UNCHANGED mgrVars

\* saveToJSON called again and again on one calendar date (one snapshot
\* path), each time with a list of up to MaxSaved canonical records of two
\* providers.
SavedSamples == {1, 4}

SaveLists ==
    UNION {{normalizeData([j \in 1..n |-> RawOf({}, vs[j], j)]) :
               vs \in [1..n -> SavedSamples]} : n \in 0..MaxSaved}

InitSave ==
    /\ pc = "idle"
    /\ data = <<>>
    /\ Started(<<>>, {FALSE}, <<>>, {0}, 0)

\* A caller's `await this.saveToJSON(d)`, the first or one after a return.
SaveAgain ==
    /\ pc \in {"idle", "saved"}
    /\ Cardinality({i \in 1..Len(log) : log[i].op = "SAVE"}) < MaxCalls
    /\ \E d \in SaveLists : CallSaveToJSON(d)
    /\ UNCHANGED <<apiKey, tz, data, batches, batchIdx, snapshot, summary,
                   exitStatus>>
    /\ UNCHANGED scrapeVars
    /\ UNCHANGED mgrVars

NextSave ==
    \/ SaveAgain
    \/ WriteSnapshot
    \/ WriteSummary

SpecSave == InitSave /\ [][NextSave]_vars

\* -------------------------------------------------------- saveToAirtable
\* The definition in force is the second one of the class (the later method
\* of the same name replaces the earlier).
\* A saveToAirtable without the API key test: it always goes to the probe.
SyncEntry_NoKeyTest ==
    /\ pc = "sync"
    /\ pc' = "probeSend"
    /\ UNCHANGED <<jsonArg, log>>
    /\ UNCHANGED <<apiKey, tz, data, batches, batchIdx, snapshot, summary,
                   exitStatus>>
    /\ UNCHANGED scrapeVars
    /\ UNCHANGED mgrVars

\* `if (!this.airtableConfig.apiKey) { await this.saveToJSON(data); return; }`
SyncEntry ==
    /\ pc = "sync"
    /\ IF ~apiKey
       THEN CallSaveToJSON(data)
       ELSE pc' = "probeSend" /\ UNCHANGED <<jsonArg, log>>
    /\ UNCHANGED <<apiKey, tz, data, batches, batchIdx, snapshot, summary,
                   exitStatus>>
    /\ UNCHANGED scrapeVars
    /\ UNCHANGED mgrVars

\* The connection test: `fetch(url, {method: 'GET', ...})` is issued.
ProbeSend ==
    /\ pc = "probeSend"
    /\ log' = Append(log, Event("GET", <<>>, ""))
    /\ pc' = "probeWait"
    /\ UNCHANGED <<apiKey, tz, data, batches, batchIdx, jsonArg, snapshot,
                   summary, exitStatus>>
    /\ UNCHANGED scrapeVars
    /\ UNCHANGED mgrVars

Outcomes == {"ok", "notok", "throw"}

\* A probe whose status is not tested (`if (!testResponse.ok)` left out):
\* only a rejected fetch falls back.
ProbeResponse_StatusIgnored ==
    /\ pc = "probeWait"
    /\ \E r \in Outcomes :
          IF r \in {"ok", "notok"}
          THEN /\ log' = Append(log, Event("RESP", <<>>, r))
               /\ batches' = createBatches(data, BatchSize)
               /\ batchIdx' = 1
               /\ pc' = "batchLoop"
               /\ UNCHANGED jsonArg
          ELSE /\ jsonArg' = data
               /\ log' = log \o <<Event("RESP", <<>>, r), Event("SAVE", data, "")>>
               /\ pc' = "jsonSnapshot"
               /\ UNCHANGED <<batches, batchIdx>>
    /\ UNCHANGED <<apiKey, tz, data, snapshot, summary, exitStatus>>
    /\ UNCHANGED scrapeVars
    /\ UNCHANGED mgrVars

\* The probe's answer: ok, a non-OK response, or a rejected fetch.  Either
\* failure falls back to saveToJSON and returns; on ok the batches are cut.
ProbeResponse ==
    /\ pc = "probeWait"
    /\ \E r \in Outcomes :
          IF r = "ok"
          THEN /\ log' = Append(log, Event("RESP", <<>>, r))
               /\ batches' = createBatches(data, BatchSize)
               /\ batchIdx' = 1
               /\ pc' = "batchLoop"
               /\ UNCHANGED jsonArg
          ELSE /\ jsonArg' = data
               /\ log' = log \o <<Event("RESP", <<>>, r), Event("SAVE", data, "")>>
               /\ pc' = "jsonSnapshot"
               /\ UNCHANGED <<batches, batchIdx>>
    /\ UNCHANGED <<apiKey, tz, data, snapshot, summary, exitStatus>>
    /\ UNCHANGED scrapeVars
    /\ UNCHANGED mgrVars

\* A send loop that does not await its fetch: the request goes out and the
\* loop moves on.
BatchSend_NotAwaited ==
    /\ pc = "batchLoop"
    /\ batchIdx <= Len(batches)
    /\ log' = Append(log, Event("POST", batches[batchIdx], ""))
    /\ batchIdx' = batchIdx + 1
    /\ pc' = pc
    /\ UNCHANGED <<apiKey, tz, data, batches, jsonArg, snapshot, summary,
                   exitStatus>>
    /\ UNCHANGED scrapeVars
    /\ UNCHANGED mgrVars

\* One turn of the send loop: `fetch(url, {method: 'POST', ...})` with the
\* batch at batchIdx.
BatchSend ==
    /\ pc = "batchLoop"
    /\ batchIdx <= Len(batches)
    /\ log' = Append(log, Event("POST", batches[batchIdx], ""))
    /\ pc' = "batchWait"
    /\ UNCHANGED <<apiKey, tz, data, batches, batchIdx, jsonArg, snapshot,
                   summary, exitStatus>>
    /\ UNCHANGED scrapeVars
    /\ UNCHANGED mgrVars

\* A send loop that a rejected fetch ends (no try around the request): the
\* later batches are not sent.
BatchResponse_AbortsOnThrow ==
    /\ pc = "batchWait"
    /\ \E r \in Outcomes :
          /\ log' = Append(log, Event("RESP", <<>>, r))
          /\ pc' = IF r = "throw" THEN "saved" ELSE "sleep"
    /\ UNCHANGED <<apiKey, tz, data, batches, batchIdx, jsonArg, snapshot,
                   summary, exitStatus>>
    /\ UNCHANGED scrapeVars
    /\ UNCHANGED mgrVars

\* A send loop whose wait sits inside the try, after the request: a batch
\* that failed goes straight on to the next one.
BatchResponse_NoWaitOnFailure ==
    /\ pc = "batchWait"
    /\ \E r \in Outcomes :
          /\ log' = Append(log, Event("RESP", <<>>, r))
          /\ IF r = "ok"
             THEN pc' = "sleep" /\ UNCHANGED batchIdx
             ELSE pc' = "batchLoop" /\ batchIdx' = batchIdx + 1
    /\ UNCHANGED <<apiKey, tz, data, batches, jsonArg, snapshot, summary,
                   exitStatus>>
    /\ UNCHANGED scrapeVars
    /\ UNCHANGED mgrVars

\* The create request's answer; each outcome is logged and the loop goes on
\* to its rate-limit wait.
BatchResponse ==
    /\ pc = "batchWait"
    /\ \E r \in Outcomes : log' = Append(log, Event("RESP", <<>>, r))
    /\ pc' = "sleep"
    /\ UNCHANGED <<apiKey, tz, data, batches, batchIdx, jsonArg, snapshot,
                   summary, exitStatus>>
    /\ UNCHANGED scrapeVars
    /\ UNCHANGED mgrVars

\* `await new Promise(resolve => setTimeout(resolve, 250))`, then i++.
RateLimitWait ==
    /\ pc = "sleep"
    /\ log' = Append(log, Event("SLEEP", <<>>, ""))
    /\ batchIdx' = batchIdx + 1
    /\ pc' = "batchLoop"
    /\ UNCHANGED <<apiKey, tz, data, batches, jsonArg, snapshot, summary,
                   exitStatus>>
    /\ UNCHANGED scrapeVars
    /\ UNCHANGED mgrVars

\* A saveToAirtable without the backup save after the loop (as the first
\* definition of the method has it).
BackupSave_Missing ==
    /\ pc = "batchLoop"
    /\ batchIdx > Len(batches)
    /\ pc' = "saved"
    /\ UNCHANGED <<jsonArg, log>>
    /\ UNCHANGED <<apiKey, tz, data, batches, batchIdx, snapshot, summary,
                   exitStatus>>
    /\ UNCHANGED scrapeVars
    /\ UNCHANGED mgrVars

\* The loop is over: `await this.saveToJSON(data)` as backup.
BackupSave ==
    /\ pc = "batchLoop"
    /\ batchIdx > Len(batches)
    /\ CallSaveToJSON(data)
    /\ UNCHANGED <<apiKey, tz, data, batches, batchIdx, snapshot, summary,
                   exitStatus>>
    /\ UNCHANGED scrapeVars
    /\ UNCHANGED mgrVars

NextSync ==
    \/ SyncEntry
    \/ ProbeSend
    \/ ProbeResponse
    \/ BatchSend
    \/ BatchResponse
    \/ RateLimitWait
    \/ BackupSave
    \/ WriteSnapshot
    \/ WriteSummary

SpecSync == InitSync /\ [][NextSync]_vars

\* ------------------------------------------- AirtableManager.addClasses
\* addClasses(classes) called on any list of up to MaxRecords records.
InitManager ==
    /\ pc = "mgrList"
    /\ \E n \in 0..MaxRecords : data = CanonicalList(n)
    /\ \E m \in 0..MaxExisting : Started(<<>>, {TRUE}, <<>>, {0}, m)

\* The m rows the store lists, each with its record id.
StoredRows(m) == [k \in 1..m |-> [id |-> k]]

\* clearOldRecords -> getAllClasses: the list request is issued.
MgrListSend ==
    /\ pc = "mgrList"
    /\ log' = Append(log, Event("GET", <<>>, ""))
    /\ pc' = "mgrListWait"
    /\ UNCHANGED <<apiKey, tz, data, batches, batchIdx, jsonArg, snapshot,
                   summary, exitStatus>>
    /\ UNCHANGED scrapeVars
    /\ UNCHANGED mgrVars

\* A getAllClasses without its catch: a list request that fails raises
\* through clearOldRecords' caller and addClasses ends there.
MgrListResponse_Propagates ==
    /\ pc = "mgrListWait"
    /\ \E r \in Outcomes :
          /\ log' = Append(log, Event("RESP", <<>>, r))
          /\ IF r = "ok"
             THEN /\ existing' = StoredRows(Cardinality(store.old))
                  /\ pc' = "mgrDelLoop"
             ELSE /\ existing' = <<>>
                  /\ pc' = "mgrReturned"
    /\ UNCHANGED store
    /\ delBatches' = createBatches(existing', BatchSize)
    /\ delIdx' = 1
    /\ UNCHANGED <<apiKey, tz, data, batches, batchIdx, jsonArg, snapshot,
                   summary, exitStatus>>
    /\ UNCHANGED scrapeVars

\* getAllClasses returns the rows of the table as the response lists them,
\* or [] from its catch when the response is not OK or the request raised;
\* clearOldRecords cuts the ids into batches of 10.
MgrListResponse ==
    /\ pc = "mgrListWait"
    /\ \E r \in Outcomes :
          /\ log' = Append(log, Event("RESP", <<>>, r))
          /\ IF r = "ok"
             THEN existing' = StoredRows(Cardinality(store.old))
             ELSE existing' = <<>>
    /\ UNCHANGED store
    /\ delBatches' = createBatches(existing', BatchSize)
    /\ delIdx' = 1
    /\ pc' = "mgrDelLoop"
    /\ UNCHANGED <<apiKey, tz, data, batches, batchIdx, jsonArg, snapshot,
                   summary, exitStatus>>
    /\ UNCHANGED scrapeVars

\* One turn of the delete loop: `fetch(baseUrl, {method: 'DELETE', ...})`.
MgrDeleteSend ==
    /\ pc = "mgrDelLoop"
    /\ delIdx <= Len(delBatches)
    /\ log' = Append(log, Event("DELETE", delBatches[delIdx], ""))
    /\ pc' = "mgrDelWait"
    /\ UNCHANGED <<apiKey, tz, data, batches, batchIdx, jsonArg, snapshot,
                   summary, exitStatus>>
    /\ UNCHANGED scrapeVars
    /\ UNCHANGED mgrVars

\* The ids a delete request names.
IdsOf(batch) == {batch[i].id : i \in 1..Len(batch)}

\* The delete request's answer.  A response, OK or not, goes on to the wait
\* (an OK one has removed the rows named); a rejected fetch goes to the
\* catch around the whole loop, which ends clearOldRecords, and addClasses
\* cuts its batches.
MgrDeleteResponse ==
    /\ pc = "mgrDelWait"
    /\ \E r \in Outcomes :
          /\ log' = Append(log, Event("RESP", <<>>, r))
          /\ store' = IF r = "ok"
                      THEN [store EXCEPT !.old = @ \ IdsOf(delBatches[delIdx])]
                      ELSE store
          /\ IF r = "throw"
             THEN /\ batches' = createBatches(data, BatchSize)
                  /\ batchIdx' = 1
                  /\ pc' = "mgrBatchLoop"
             ELSE /\ pc' = "mgrDelSleep"
                  /\ UNCHANGED <<batches, batchIdx>>
    /\ UNCHANGED <<apiKey, tz, data, jsonArg, snapshot, summary, exitStatus>>
    /\ UNCHANGED scrapeVars
    /\ UNCHANGED <<existing, delBatches, delIdx>>

\* A delete loop that steps by two.
MgrDeleteWait_SkipsOne ==
    /\ pc = "mgrDelSleep"
    /\ log' = Append(log, Event("SLEEP", <<>>, ""))
    /\ delIdx' = delIdx + 2
    /\ pc' = "mgrDelLoop"
    /\ UNCHANGED <<apiKey, tz, data, batches, batchIdx, jsonArg, snapshot,
                   summary, exitStatus>>
    /\ UNCHANGED scrapeVars
    /\ UNCHANGED <<existing, delBatches, store>>

\* The 250 ms wait of the delete loop.
MgrDeleteWait ==
    /\ pc = "mgrDelSleep"
    /\ log' = Append(log, Event("SLEEP", <<>>, ""))
    /\ delIdx' = delIdx + 1
    /\ pc' = "mgrDelLoop"
    /\ UNCHANGED <<apiKey, tz, data, batches, batchIdx, jsonArg, snapshot,
                   summary, exitStatus>>
    /\ UNCHANGED scrapeVars
    /\ UNCHANGED <<existing, delBatches, store>>

\* The delete loop is over: `this.createBatches(classes, 10)`.
MgrClearDone ==
    /\ pc = "mgrDelLoop"
    /\ delIdx > Len(delBatches)
    /\ batches' = createBatches(data, BatchSize)
    /\ batchIdx' = 1
    /\ pc' = "mgrBatchLoop"
    /\ UNCHANGED <<apiKey, tz, data, jsonArg, log, snapshot, summary, exitStatus>>
    /\ UNCHANGED scrapeVars
    /\ UNCHANGED mgrVars

\* One turn of addClasses' loop: the create request of the batch at hand.
MgrBatchSend ==
    /\ pc = "mgrBatchLoop"
    /\ batchIdx <= Len(batches)
    /\ log' = Append(log, Event("POST", batches[batchIdx], ""))
    /\ pc' = "mgrBatchWait"
    /\ UNCHANGED <<apiKey, tz, data, batches, batchIdx, jsonArg, snapshot,
                   summary, exitStatus>>
    /\ UNCHANGED scrapeVars
    /\ UNCHANGED mgrVars

\* Its answer: each outcome is logged and the loop goes on to its wait; an
\* OK response has added the records of the batch to the table.
MgrBatchResponse ==
    /\ pc = "mgrBatchWait"
    /\ \E r \in Outcomes :
          /\ log' = Append(log, Event("RESP", <<>>, r))
          /\ store' = IF r = "ok"
                      THEN [store EXCEPT !.new = @ \o batches[batchIdx]]
                      ELSE store
    /\ pc' = "mgrBatchSleep"
    /\ UNCHANGED <<apiKey, tz, data, batches, batchIdx, jsonArg, snapshot,
                   summary, exitStatus>>
    /\ UNCHANGED scrapeVars
    /\ UNCHANGED <<existing, delBatches, delIdx>>

\* The 250 ms wait of addClasses' loop.
MgrBatchWait ==
    /\ pc = "mgrBatchSleep"
    /\ log' = Append(log, Event("SLEEP", <<>>, ""))
    /\ batchIdx' = batchIdx + 1
    /\ pc' = "mgrBatchLoop"
    /\ UNCHANGED <<apiKey, tz, data, batches, jsonArg, snapshot, summary,
                   exitStatus>>
    /\ UNCHANGED scrapeVars
    /\ UNCHANGED mgrVars

\* addClasses returns.
MgrReturn ==
    /\ pc = "mgrBatchLoop"
    /\ batchIdx > Len(batches)
    /\ pc' = "mgrReturned"
    /\ UNCHANGED <<exitStatus>>
    /\ UNCHANGED syncVars
    /\ UNCHANGED scrapeVars
    /\ UNCHANGED mgrVars

NextManager ==
    \/ MgrListSend
    \/ MgrListResponse
    \/ MgrDeleteSend
    \/ MgrDeleteResponse
    \/ MgrDeleteWait
    \/ MgrClearDone
    \/ MgrBatchSend
    \/ MgrBatchResponse
    \/ MgrBatchWait
    \/ MgrReturn

SpecManager == InitManager /\ [][NextManager]_vars

\* The insert step of either routine: saveToAirtable or addClasses.
InitInsert == InitSync \/ InitManager

NextInsert == NextSync \/ NextManager

SpecInsert == InitInsert /\ [][NextInsert]_vars


\* ------------------------------------------------------------------ main
\* A main that hands every result to saveToAirtable, the empty one too.
MainSave_AlwaysSync ==
    /\ pc = "scrapeReturned"
    /\ data' = result
    /\ log' = Append(log, Event("SYNC", result, ""))
    /\ pc' = "sync"
    /\ UNCHANGED jsonArg
    /\ UNCHANGED <<apiKey, tz, batches, batchIdx, snapshot, summary, exitStatus>>
    /\ UNCHANGED scrapeVars
    /\ UNCHANGED mgrVars

\* scrapeAll returned: saveToAirtable(classes) when there are classes (the
\* call is entered in the log), saveToJSON([]) otherwise.
MainSave ==
    /\ pc = "scrapeReturned"
    /\ IF Len(result) > 0
       THEN /\ data' = result
            /\ log' = Append(log, Event("SYNC", result, ""))
            /\ pc' = "sync"
            /\ UNCHANGED jsonArg
       ELSE /\ CallSaveToJSON(<<>>)
            /\ UNCHANGED data
    /\ UNCHANGED <<apiKey, tz, batches, batchIdx, snapshot, summary, exitStatus>>
    /\ UNCHANGED scrapeVars
    /\ UNCHANGED mgrVars

\* The save returned and main with it: the process ends with status 0.
MainDone ==
    /\ pc = "saved"
    /\ exitStatus' = 0
    /\ pc' = "exit"
    /\ UNCHANGED scrapeVars
    /\ UNCHANGED syncVars
    /\ UNCHANGED mgrVars

\* A catch in main that logs and returns, without `process.exit(1)`.
MainCatch_NoExit ==
    /\ pc = "scrapeRaised"
    /\ exitStatus' = 0
    /\ pc' = "exit"
    /\ UNCHANGED scrapeVars
    /\ UNCHANGED syncVars
    /\ UNCHANGED mgrVars

\* main's catch: `process.exit(1)`.
MainCatch ==
    /\ pc = "scrapeRaised"
    /\ exitStatus' = 1
    /\ pc' = "exit"
    /\ UNCHANGED scrapeVars
    /\ UNCHANGED syncVars
    /\ UNCHANGED mgrVars

\* main with the registry of the source, which holds no extractor that waits
\* for a selector.
Next ==
    \/ Launch
    \/ InvokeSource
    \/ NewPage
    \/ Goto
    \/ Evaluate
    \/ ClosePage
    \/ SourceReturned
    \/ SourceCatch
    \/ BrowserClose
    \/ Normalize
    \/ MainSave
    \/ MainDone
    \/ MainCatch
    \/ SyncEntry
    \/ ProbeSend
    \/ ProbeResponse
    \/ BatchSend
    \/ BatchResponse
    \/ RateLimitWait
    \/ BackupSave
    \/ WriteSnapshot
    \/ WriteSummary

Spec == Init /\ [][Next]_vars

\* main run with any registry of up to MaxRunSources sources, for the
\* statements about runs that are made of several sources.
InitRun ==
    /\ pc = "launch"
    /\ data = <<>>
    /\ \E reg \in UNION {[1..n -> Kinds] : n \in 0..MaxRunSources} :
          Constructed(reg, BOOLEAN)

NextRun ==
    \/ Next
    \/ WaitForSelector

SpecRun == InitRun /\ [][NextRun]_vars

\* ==================================================================
\* Properties
\* ==================================================================
IsPost(e) == e.op = "POST"

IsSave(e) == e.op = "SAVE"

\* Positions in the effect log of the events of one kind.
Positions(op) == {i \in 1..Len(log) : log[i].op = op}

\* The bodies of the create requests issued so far, in issue order.
PostBodies ==
    LET posts == SelectSeq(log, IsPost)
    IN  [i \in 1..Len(posts) |-> posts[i].body]

RECURSIVE Flatten(_)
Flatten(ss) == IF ss = <<>> THEN <<>> ELSE Head(ss) \o Flatten(Tail(ss))

\* The answer to the connectivity probe, "" while there is none.
ProbeAnswer ==
    IF Len(log) >= 2 /\ log[1].op = "GET" /\ log[2].op = "RESP"
    THEN log[2].res ELSE ""

\* Attempts to write the snapshot file, successful or not.
SnapshotWrites ==
    {i \in 1..Len(log) : log[i].op \in {"WRITE", "WRITEFAIL"}
                         /\ log[i].res = "snapshot"}

\* saveToAirtable has returned.
SyncReturned == pc = "saved"

\* The extractor of source i has finished, normally or by raising.
Finished(i) == i < srcIdx \/ (i = srcIdx /\ pc \in {"srcReturned", "srcRaised"})

InExtractor == pc \in {"newPage", "goto", "wait", "evaluate", "close"}

\* The records of source i in the aggregate, in aggregate order.
FromSource(i) ==
    LET idx == {j \in 1..Len(classes) : classes[j].src = i}
    IN  Cardinality(idx)

\* The for-loop of scrapeAll has gone through the whole registry.
LoopOver == srcIdx > Len(sources) /\ pc \in {"loop", "normalize", "scrapeReturned", "scrapeRaised"}
                                  /\ browser # "none"

\* ------------------------------------------------------------------
\* C1 (as claimed): when the loop of scrapeAll is over, every source of the
\* registry was invoked, and the aggregate holds exactly the records of the
\* sources that did not fail: all that each of those returned, and nothing
\* from a source that failed.
C1_FailureIsolation ==
    LoopOver =>
        /\ invoked = [i \in 1..Len(sources) |-> i]
        /\ \A i \in 1..Len(sources) :
              FromSource(i) = IF i \in failed THEN 0 ELSE yielded[i]

\* ------------------------------------------------------------------
\* C2: saveToJSON is invoked at most once per saveToAirtable call, and a
\* call that has returned has invoked it exactly once, with the full record
\* list, after every request of the call (the probe and the last create).
C2_LocalSaveOnce ==
    /\ Cardinality(Positions("SAVE")) <= 1
    /\ \A i \in Positions("SAVE") :
          /\ log[i].body = data
          /\ \A j \in Positions("POST") \cup Positions("GET") : j < i
    /\ SyncReturned => Cardinality(Positions("SAVE")) = 1

\* A call that returned after three create requests of which one failed
\* and one succeeded.
C2_Witness ==
    /\ SyncReturned
    /\ Cardinality(Positions("POST")) = 3
    /\ \E i, j \in Positions("POST") :
          log[i + 1].res = "throw" /\ log[j + 1].res = "ok"

\* ------------------------------------------------------------------
\* C3: with no API key no network request is ever issued, and a call that
\* has returned has attempted exactly one snapshot write, in one saveToJSON
\* call on the full record list.
C3_NoKeyNoNetwork ==
    ~apiKey =>
        /\ Positions("GET") \cup Positions("POST") \cup Positions("DELETE") = {}
        /\ Cardinality(SnapshotWrites) <= 1
        /\ SyncReturned =>
              /\ Cardinality(SnapshotWrites) = 1
              /\ \A i \in SnapshotWrites : log[i].body = data
              /\ Cardinality(Positions("SAVE")) = 1

C3_Witness ==
    /\ ~apiKey
    /\ SyncReturned
    /\ Len(data) > 0
    /\ snapshot = [state |-> "written", content |-> data]

\* ------------------------------------------------------------------
\* C4: with an API key exactly one probe is issued, before any create
\* request; when the probe fails (non-OK or raised) no create request is
\* issued in the call and saveToJSON is invoked with the full record list.
C4_ProbeFallback ==
    apiKey =>
        /\ Positions("GET") \subseteq {1}
        /\ Positions("POST") # {} => ProbeAnswer = "ok"
        /\ pc \notin {"sync", "probeSend"} => Positions("GET") = {1}
        /\ ProbeAnswer \in {"notok", "throw"} =>
              /\ Positions("POST") = {}
              /\ \E i \in Positions("SAVE") : log[i].body = data

C4_Witness ==
    /\ apiKey
    /\ SyncReturned
    /\ ProbeAnswer = "notok"
    /\ Len(data) > 10

\* ------------------------------------------------------------------
\* C5: the create requests carry between 1 and 10 records each, all but
\* the last exactly 10, and concatenated in issue order they are the input
\* list up to where the loop is; once the call has returned after a good
\* probe there were ceil(n/10) of them and they concatenate to the input
\* list; for n = 23 their sizes are 10, 10, 3.
C5_BatchSizing ==
    LET sent == PostBodies
        n == Len(data)
        sizes == [i \in 1..Len(sent) |-> Len(sent[i])]
    IN  /\ \A i \in 1..Len(sent) : sizes[i] >= 1 /\ sizes[i] <= 10
        /\ \A i \in 1..(Len(sent) - 1) : sizes[i] = 10
        /\ Len(Flatten(sent)) <= n
        /\ Flatten(sent) = SubSeq(data, 1, Len(Flatten(sent)))
        /\ (SyncReturned /\ ProbeAnswer = "ok") =>
              /\ Len(sent) = (n + 9) \div 10
              /\ Flatten(sent) = data
              /\ n = 23 => sizes = <<10, 10, 3>>

C5_Witness ==
    /\ SyncReturned
    /\ ProbeAnswer = "ok"
    /\ Len(data) = 23
    /\ Cardinality(Positions("POST")) = 3

\* ------------------------------------------------------------------
\* A routine has returned after its insert step: addClasses, or
\* saveToAirtable after a good probe.
InsertDone ==
    \/ pc = "mgrReturned"
    \/ (pc = "saved" /\ apiKey /\ ProbeAnswer = "ok")

\* C6: in saveToAirtable and in addClasses alike, whatever the outcomes of
\* the create requests, the requests issued so far are the batches up to
\* the loop index, each once and in order (a failed batch is not sent
\* again, a later one not left out); a routine that returned after its
\* insert step has sent every batch; and once a create request is issued
\* nothing but create requests follows (no delete, no list).
C6_BatchFailureTolerance ==
    LET sent == PostBodies
    IN  /\ Len(sent) <= Len(batches)
        /\ sent = SubSeq(batches, 1, Len(sent))
        /\ pc \in {"batchLoop", "mgrBatchLoop"} => Len(sent) = batchIdx - 1
        /\ pc \in {"batchWait", "sleep", "mgrBatchWait", "mgrBatchSleep"} =>
              Len(sent) = batchIdx
        /\ InsertDone =>
              /\ sent = batches
              /\ Flatten(sent) = data
        /\ \A i \in Positions("POST") :
              \A j \in (i + 1)..Len(log) : log[j].op \notin {"DELETE", "GET"}

\* A routine that returned after three create requests, every one of which
\* failed.
C6_Witness ==
    /\ InsertDone
    /\ Cardinality(Positions("POST")) = 3
    /\ \A i \in Positions("POST") : log[i + 1].res # "ok"
    /\ \E i \in Positions("POST") : log[i + 1].res = "throw"
    /\ \E i \in Positions("POST") : log[i + 1].res = "notok"

\* ------------------------------------------------------------------
\* C7 (as claimed): no extractor invocation ends by raising into its
\* caller, and one whose browser operation failed has put no record into
\* the aggregate.
C7_ExtractorNeverRaises ==
    /\ pc # "srcRaised"
    /\ \A i \in tryFailed : FromSource(i) = 0

\* ------------------------------------------------------------------
\* C8 (as claimed): an extractor invocation that has finished has opened
\* exactly one page and closed it exactly once, and its page is not open.
C8_OnePageOpenedAndClosed ==
    \A i \in 1..Len(sources) :
        Finished(i) =>
            /\ pagesOpened[i] = 1
            /\ pageCloseCalls[i] = 1
            /\ page[i] # "open"

\* The extractor of source i has ended by raising into scrapeAll.
Raised(i) == i \in failed \/ (i = srcIdx /\ pc = "srcRaised")

\* C8 (amended): an invocation opens at most one page and calls close only
\* on a page it has opened; one that has finished after opening its page has
\* called close on it exactly once, whatever failed in between, and the
\* page is then no longer open unless that close call itself failed (the
\* only way an invocation that opened a page ends by raising).
C8_PageScoped ==
    \A i \in 1..Len(sources) :
        /\ pagesOpened[i] <= 1
        /\ pageCloseCalls[i] <= pagesOpened[i]
        /\ page[i] # "none" <=> pagesOpened[i] = 1
        /\ (Finished(i) /\ pagesOpened[i] = 1) =>
              /\ pageCloseCalls[i] = 1
              /\ ~Raised(i) => page[i] = "closed"
              /\ page[i] = "open" => Raised(i) /\ browser = "open"
        /\ (Finished(i) /\ pagesOpened[i] = 0) => Raised(i)

\* An invocation whose navigation (or wait, or evaluation) failed has
\* finished normally with its page closed.
C8_Witness ==
    \E i \in 1..Len(sources) :
        /\ Finished(i)
        /\ i \in tryFailed
        /\ i \notin failed
        /\ pc # "srcRaised"
        /\ pageCloseCalls[i] = 1
        /\ page[i] = "closed"

\* ------------------------------------------------------------------
\* C9: browser.close() is called at most once, only when every source of
\* the registry has been attempted and before normalizeData runs; no
\* extractor runs after it; a run of scrapeAll that acquired the session and
\* has ended, by returning or raising, has called it exactly once.
C9_SessionReleasedOnce ==
    /\ browserCloseCalls <= 1
    /\ browserCloseCalls = 1 =>
          /\ invoked = [i \in 1..Len(sources) |-> i]
          /\ \A i \in 1..Len(sources) : Finished(i)
          /\ ~InExtractor
          /\ pc \notin {"srcReturned", "srcRaised"}
    /\ pc \in {"normalize", "scrapeReturned"} =>
          browserCloseCalls = 1 /\ browser = "closed"
    /\ browserCloseCalls = 0 => result = <<>> /\ browser # "closed"
    /\ (pc = "scrapeRaised" /\ browser # "none") => browserCloseCalls = 1

\* A run over three sources, of which at least one failed, that returned.
C9_Witness ==
    /\ pc = "scrapeReturned"
    /\ Len(sources) = 3
    /\ failed # {}
    /\ browserCloseCalls = 1
    /\ browser = "closed"

\* ------------------------------------------------------------------
\* C10: the sources are invoked in registration order, one at a time (a
\* source is invoked only when every earlier one has finished, and while an
\* extractor runs it is the last one invoked), and the aggregate lists the
\* records of an earlier source before those of a later one, each source's
\* records in the order its query returned them.
C10_SourceOrder ==
    /\ invoked = [i \in 1..Len(invoked) |-> i]
    /\ Len(invoked) \in {srcIdx - 1, srcIdx}
    /\ (InExtractor \/ pc \in {"srcReturned", "srcRaised"}) =>
          Len(invoked) = srcIdx
    /\ \A i \in 1..Len(invoked) : i < Len(invoked) => Finished(i)
    /\ \A i, j \in 1..Len(classes) :
          i < j => \/ classes[i].src < classes[j].src
                   \/ (classes[i].src = classes[j].src
                       /\ classes[i].n < classes[j].n)

\* Three sources have run and the aggregate holds records of the first and
\* of the third.
C10_Witness ==
    /\ Len(invoked) = 3
    /\ LoopOver
    /\ \E i, j \in 1..Len(classes) :
          classes[i].src = 1 /\ classes[j].src = 3

\* ------------------------------------------------------------------
\* Requests issued and not yet answered.
InFlight ==
    Cardinality(Positions("GET") \cup Positions("POST") \cup Positions("DELETE"))
        - Cardinality(Positions("RESP"))

\* C11: saveToAirtable issues its create requests strictly in array order
\* (the k-th request carries the k-th batch), at most one request is in
\* flight at any time, and every create request but the last in the log is
\* followed by its answer, whatever that answer is, and then by the 250 ms
\* wait before the next create request is issued.
C11_OrderedRateLimited ==
    /\ \A k \in 1..Len(PostBodies) :
          k <= Len(batches) /\ PostBodies[k] = batches[k]
    /\ InFlight \in {0, 1}
    /\ InFlight = 1 <=> pc \in {"probeWait", "batchWait"}
    /\ \A i, j \in Positions("POST") :
          i < j => /\ i + 3 <= j
                   /\ log[i + 1].op = "RESP"
                   /\ log[i + 2].op = "SLEEP"
    /\ \A j \in Positions("POST") :
          log[j - 1].op = "SLEEP" \/ (j = 3 /\ log[j - 1].op = "RESP")

\* Three create requests were issued, the first answered by a non-OK
\* response and the second by a rejected fetch.
C11_Witness ==
    /\ Len(PostBodies) = 3
    /\ \E i, j \in Positions("POST") :
          /\ i < j /\ j < Len(log)
          /\ log[i + 1].res = "notok" /\ log[j + 1].res = "throw"
    /\ pc = "batchWait"

\* ------------------------------------------------------------------
\* clearOldRecords is over: addClasses is at its create loop or has returned.
ClearOver == pc \in {"mgrBatchLoop", "mgrBatchWait", "mgrBatchSleep", "mgrReturned"}

\* The bodies of the delete requests issued so far, in issue order.
DeleteBodies ==
    LET IsDelete(e) == e.op = "DELETE"
        dels == SelectSeq(log, IsDelete)
    IN  [i \in 1..Len(dels) |-> dels[i].body]

\* C12 (as claimed): in clearOldRecords the failure of one delete request,
\* by a non-OK response or by a raised network error, does not stop the
\* others: when clearOldRecords is over a delete request was issued for
\* every batch of listed ids.
C12_DeleteFailureIsolation ==
    ClearOver => DeleteBodies = delBatches

\* ------------------------------------------------------------------
\* The process has ended.
Exited == pc = "exit"

\* No request was issued and no file written.
NothingDone ==
    /\ Positions("GET") \cup Positions("POST") \cup Positions("DELETE") = {}
    /\ Positions("WRITE") \cup Positions("WRITEFAIL") = {}
    /\ snapshot = NoFile /\ summary = NoFile

\* C13 (as claimed): a run of main that acquired the browser session ends
\* with status 0; one that did not acquire it ends with a non-zero status,
\* no source invoked, no request issued and no file written.
C13_ExitZeroOnceAcquired ==
    Exited =>
        IF browser # "none"
        THEN exitStatus = 0
        ELSE exitStatus # 0 /\ invoked = <<>> /\ NothingDone

\* C13 (amended): a run that acquired the session and released it
\* (browser.close() resolved) ends with status 0, whatever the sources did
\* and however many records there are; a run that failed to acquire the
\* session, or whose browser.close() rejected, ends with status 1 with no
\* request issued and no file written, and with no source invoked when the
\* session was not acquired.
C13_ExitContract ==
    /\ Exited =>
          /\ exitStatus = IF browser = "closed" THEN 0 ELSE 1
          /\ exitStatus # 0 => NothingDone
          /\ browser = "none" => invoked = <<>>
    /\ ~Exited => exitStatus = -1

\* The one source failed, nothing was extracted, and the run ended with
\* status 0 after writing the empty snapshot.
C13_Witness ==
    /\ Exited
    /\ exitStatus = 0
    /\ failed = {1}
    /\ result = <<>>
    /\ snapshot = [state |-> "written", content |-> <<>>]

\* ------------------------------------------------------------------
\* saveToAirtable calls of main and saveToJSON calls, by log position.
SyncCalls == Positions("SYNC")

SaveCalls == Positions("SAVE")

\* C14 (as claimed): in every run of main that acquired the session,
\* whatever the number of records, saveToAirtable is called exactly once,
\* on the full normalized aggregate, after all sources were attempted and
\* the session released, and saveToJSON exactly once on the same records.
C14_SyncOnceAlways ==
    (Exited /\ browser # "none") =>
        /\ Cardinality(SyncCalls) = 1
        /\ Cardinality(SaveCalls) = 1
        /\ \A i \in SyncCalls \cup SaveCalls : log[i].body = result

\* C14 (amended): saveToAirtable is called at most once, only on a
\* non-empty result, which is the normalized aggregate, after every source
\* was attempted and the session released; a run that ended with status 0
\* has called saveToJSON exactly once, on that same result, and
\* saveToAirtable exactly once when there are records and not at all when
\* there are none; a run that ended with status 1 has called neither.
C14_PipelineOrder ==
    /\ Cardinality(SyncCalls) <= 1
    /\ Cardinality(SaveCalls) <= 1
    /\ \A i \in SyncCalls :
          /\ log[i].body = result /\ result = normalizeData(classes)
          /\ Len(result) > 0
          /\ invoked = [k \in 1..Len(sources) |-> k]
          /\ srcIdx > Len(sources)
          /\ browser = "closed"
          /\ \A j \in 1..Len(log) : j < i => log[j].op = "SYNC"
    /\ \A i \in SaveCalls :
          /\ log[i].body = result
          /\ browser = "closed"
          /\ \A j \in SyncCalls : j < i
    /\ (Exited /\ exitStatus = 0) =>
          /\ Cardinality(SaveCalls) = 1
          /\ Cardinality(SyncCalls) = IF Len(result) > 0 THEN 1 ELSE 0
    /\ (Exited /\ exitStatus = 1) => SyncCalls = {} /\ SaveCalls = {}

\* A run that ended after handing one record to saveToAirtable, which sent
\* it and then saved it locally.
C14_Witness ==
    /\ Exited
    /\ exitStatus = 0
    /\ Len(result) = 1
    /\ Cardinality(SyncCalls) = 1
    /\ Cardinality(Positions("POST")) = 1
    /\ snapshot = [state |-> "written", content |-> result]

\* ------------------------------------------------------------------
\* normalizeData has returned.
Normalized == pc = "scrapeReturned"

\* What generateId reads of a raw record.
Triple(cls) == <<Field(cls, "provider"), Field(cls, "title"), Field(cls, "date")>>

\* C15 (as claimed): two records of an aggregate that differ in provider,
\* title or date get different ids.
C15_IdsDistinct ==
    Normalized =>
        \A i, j \in 1..Len(classes) :
            Triple(classes[i]) # Triple(classes[j]) => result[i].id # result[j].id

\* ------------------------------------------------------------------
\* C16: normalizeData goes through on every aggregate, whatever fields its
\* records lack, and returns one canonical record per raw record, in the
\* same order: the i-th is the canonical record of the i-th raw record.
C16_NormalizerTotal ==
    /\ pc = "normalize" => Len(normalizeData(classes)) = Len(classes)
    /\ Normalized =>
          /\ Len(result) = Len(classes)
          /\ \A i \in 1..Len(classes) :
                /\ result[i].src = classes[i].src
                /\ result[i].n = classes[i].n
                /\ result[i] = normalizeRecord(classes[i])

\* Two records with no field at all were normalized.
C16_Witness ==
    /\ Normalized
    /\ Len(classes) = 2
    /\ \A i \in 1..2 : DOMAIN classes[i] = {"src", "n"}
    /\ Len(result) = 2

\* ------------------------------------------------------------------
\* The fields of a canonical record that hold plain text.
TextFields == {"title", "provider", "time", "location", "type", "link",
               "lastUpdated", "region"}

\* C17: every canonical record has all of id, title, provider, date, time,
\* location, price, type, link, lastUpdated and region, none undefined; a
\* field absent from the raw record is null for date and price, the empty
\* string for time and link, and the sentinel for title, provider,
\* location and type; and the title is never empty.
C17_FullyDefaulted ==
    Normalized =>
        \A i \in 1..Len(result) :
            LET r == result[i]
                Absent(f) == Field(classes[i], f) = UNDEFINED
            IN  /\ TextFields \cup {"id", "date", "price"} \subseteq DOMAIN r
                /\ \A f \in TextFields : r[f] # UNDEFINED
                /\ Len(r.id) >= 1 /\ Len(r.id) <= 12
                /\ r.date.kind \in {"null", "string"}
                /\ r.price.kind \in {"null", "number"}
                /\ Absent("date") => r.date = Null
                /\ Absent("price") => r.price = Null
                /\ Absent("time") => r.time = ""
                /\ Absent("link") => r.link = ""
                /\ Absent("title") => r.title = "Motorcycle Safety Course"
                /\ Absent("provider") => r.provider = "Unknown"
                /\ Absent("location") => r.location = "Southern California"
                /\ Absent("type") => r.type = "Motorcycle Course"
                /\ r.title # ""

\* A record whose only field is a title, the empty string, was normalized:
\* its canonical record holds the sentinels, null and the empty strings.
C17_Witness ==
    /\ Normalized
    /\ \E i \in 1..Len(classes) :
          /\ DOMAIN classes[i] = {"src", "n", "title"}
          /\ classes[i].title = ""
          /\ result[i].title = "Motorcycle Safety Course"
          /\ result[i].provider = "Unknown"
          /\ result[i].date = Null /\ result[i].price = Null
          /\ result[i].time = "" /\ result[i].link = ""

\* ------------------------------------------------------------------
\* The calendar date a text names, in the form YYYY-MM-DD.
CalendarDateOf(text) ==
    CASE text = "March 15, 2025" -> "2025-03-15"
      [] text = "April 15, 2025" -> "2025-04-15"
      [] text = "3/15/2025" -> "2025-03-15"
      [] text = "2025-03-15" -> "2025-03-15"
      [] text = "1/1/2025" -> "2025-01-01"

NamesDate(text) ==
    text \in {"March 15, 2025", "April 15, 2025", "3/15/2025", "2025-03-15",
              "1/1/2025"}

\* The text holds no digit, slash or dash.
NoDateCharacter(text) ==
    \A i \in 1..Len(Chars(text)) :
        ~IsDigit(Chars(text)[i]) /\ Chars(text)[i] \notin {"/", "-"}

IsYMD(cs) ==
    /\ Len(cs) = 10
    /\ cs[5] = "-" /\ cs[8] = "-"
    /\ \A i \in {1, 2, 3, 4, 6, 7, 9, 10} : IsDigit(cs[i])

\* C18 (as claimed): parseDate gives null for an absent or empty text and
\* for one without digit, slash or dash; for a text that names a calendar
\* date it gives that date as YYYY-MM-DD, in every time zone ("March 15,
\* 2025" gives "2025-03-15"); and it gives nothing but null or a string of
\* the form YYYY-MM-DD.
C18_DateNormalization ==
    Normalized =>
        \A i \in 1..Len(classes) :
            LET text == Field(classes[i], "date")
                r == result[i].date
            IN  /\ (text \in {UNDEFINED, ""} \/ NoDateCharacter(text)) => r = Null
                /\ (text # UNDEFINED /\ NamesDate(text)) =>
                      r = Str(Chars(CalendarDateOf(text)))
                /\ r = Null \/ IsYMD(r.chars)

\* ------------------------------------------------------------------
\* Every request of the run was answered OK.
AllSucceeded == \A k \in Positions("RESP") : log[k].res = "ok"

OpenPages == {i \in 1..Len(sources) : page[i] = "open"}

\* C20 (as claimed): in every state of a run at most one page is open, at
\* most one request is in flight, and no page is open once the session
\* has been closed.
C20_NoParallel ==
    /\ Cardinality(OpenPages) <= 1
    /\ InFlight <= 1
    /\ browser = "closed" => OpenPages = {}

\* C20 (amended): in every state of a run the only page open whose close
\* was not attempted is that of the extractor running, every other open
\* page is one whose page.close() rejected; at most one request is in
\* flight, and none while a page is open or an extractor runs; and no page
\* is open once the session has been closed.
C20_Sequential ==
    /\ \A i \in OpenPages :
          \/ i = srcIdx /\ pc \in {"goto", "wait", "evaluate", "close"}
                        /\ pageCloseCalls[i] = 0
          \/ pageCloseCalls[i] = 1 /\ Raised(i)
    /\ InFlight \in {0, 1}
    /\ InFlight = 1 <=> pc \in {"probeWait", "batchWait"}
    /\ InFlight = 1 => OpenPages = {} /\ browser = "closed"
    /\ browser = "closed" => OpenPages = {}

\* The first source failed at its navigation and its page was closed; the
\* second has its page open, the only one.
C20_Witness ==
    /\ Len(sources) = 2
    /\ 1 \in tryFailed
    /\ page[1] = "closed"
    /\ pc = "evaluate"
    /\ OpenPages = {2}

\* ------------------------------------------------------------------
\* Successful writes of the snapshot file and of summary.json.
SnapshotOKs ==
    {i \in 1..Len(log) : log[i].op = "WRITE" /\ log[i].res = "snapshot"}

SummaryOKs ==
    {i \in 1..Len(log) : log[i].op = "WRITE" /\ log[i].res = "summary"}

Last(S) == CHOOSE i \in S : \A j \in S : j <= i

\* The list handed to the saveToJSON call that event i of the log is of.
ListOfCall(i) == log[Last({j \in Positions("SAVE") : j < i})].body

\* A written summary.json is that of the call that wrote it last: the
\* count, the distinct providers and the first record (or none) of the list
\* of that call.
SummaryOfOwnCall ==
    summary.state = "written" =>
        /\ SummaryOKs # {}
        /\ LET d == ListOfCall(Last(SummaryOKs))
               s == summary.content[1]
           IN  /\ Len(summary.content) = 1
               /\ s.totalClasses = Len(d)
               /\ s.providers = {d[i].provider : i \in 1..Len(d)}
               /\ s.sampleClass = IF d = <<>> THEN <<>> ELSE <<d[1]>>

\* C21 (as claimed): after any sequence of saveToJSON calls the snapshot
\* file holds exactly the list of the most recent call whose snapshot write
\* succeeded, and a written summary is that of its own call's list.
C21_LastWriteWins ==
    /\ SnapshotOKs # {} =>
          /\ snapshot.state = "written"
          /\ snapshot.content = ListOfCall(Last(SnapshotOKs))
    /\ SummaryOfOwnCall

\* C21 (amended): a snapshot file that holds a list holds exactly the list
\* of the most recent call whose snapshot write succeeded, nothing of an
\* earlier call with it; it does hold that list unless a snapshot write
\* failed since, and then it holds that list or no list at all (the failed
\* write cut the file); a written summary is that of its own call's list.
C21_Overwrite ==
    /\ snapshot.state = "written" =>
          /\ SnapshotOKs # {}
          /\ snapshot.content = ListOfCall(Last(SnapshotOKs))
          /\ snapshot.content = log[Last(SnapshotOKs)].body
    /\ snapshot.state # "written" => snapshot.content = <<>>
    /\ (/\ SnapshotOKs # {}
        /\ \A i \in SnapshotWrites : i <= Last(SnapshotOKs))
          => snapshot.state = "written"
    /\ SummaryOfOwnCall

\* Two calls have returned, the first with two records and the second with
\* one record of the other provider; all four writes succeeded.
C21_Witness ==
    /\ pc = "saved"
    /\ Cardinality(SnapshotOKs) = 2
    /\ Cardinality(SummaryOKs) = 2
    /\ \E i \in SnapshotOKs :
          /\ i < Last(SnapshotOKs)
          /\ Len(log[i].body) = 2
          /\ log[i].body[1].provider # jsonArg[1].provider
    /\ Len(jsonArg) = 1
    /\ snapshot.content = jsonArg

\* ------------------------------------------------------------------
\* The answer to the list request of getAllClasses, "" while there is none.
ListAnswer ==
    IF Len(log) >= 2 /\ log[1].op = "GET" /\ log[2].op = "RESP"
    THEN log[2].res ELSE ""

\* C22: addClasses never raises: whichever of the list, delete and create
\* requests fail, control stays in the routine until it returns, the create
\* requests issued are the batches of its argument in order, each once, and
\* all of them once it has returned; when the list request failed
\* getAllClasses gave the empty list and no delete request is ever issued.
C22_AddClassesCompletes ==
    LET cb == createBatches(data, BatchSize)
    IN  /\ pc \in {"mgrList", "mgrListWait", "mgrDelLoop", "mgrDelWait",
                   "mgrDelSleep", "mgrBatchLoop", "mgrBatchWait",
                   "mgrBatchSleep", "mgrReturned"}
        /\ exitStatus = -1
        /\ pc \in {"mgrDelLoop", "mgrDelWait", "mgrDelSleep"} =>
              delIdx \in 1..(Len(delBatches) + 1)
        /\ pc \in {"mgrDelWait", "mgrDelSleep"} => delIdx <= Len(delBatches)
        /\ pc \in {"mgrBatchLoop", "mgrBatchWait", "mgrBatchSleep"} =>
              /\ batches = cb
              /\ batchIdx \in 1..(Len(cb) + 1)
        /\ pc \in {"mgrBatchWait", "mgrBatchSleep"} => batchIdx <= Len(cb)
        /\ Len(PostBodies) <= Len(cb)
        /\ \A i \in 1..Len(PostBodies) : PostBodies[i] = cb[i]
        /\ pc = "mgrReturned" => PostBodies = cb
        /\ ListAnswer \in {"notok", "throw"} =>
              /\ existing = <<>>
              /\ Positions("DELETE") = {}
              /\ delBatches = <<>>

\* addClasses has returned from a table of rows it could not list: no
\* delete was issued, the rows are still there, and all three create
\* requests were sent, one of them rejected.
C22_Witness ==
    /\ pc = "mgrReturned"
    /\ ListAnswer = "throw"
    /\ store.old # {}
    /\ Positions("DELETE") = {}
    /\ Cardinality(Positions("POST")) = 3
    /\ \E i \in Positions("POST") : log[i + 1].res = "throw"

\* ------------------------------------------------------------------
\* Attempts to write summary.json, successful or not.
SummaryWrites ==
    {i \in 1..Len(log) : log[i].op \in {"WRITE", "WRITEFAIL"}
                         /\ log[i].res = "summary"}

\* C23: saveToJSON never raises and writes the snapshot before the summary:
\* a call's first write is that of the snapshot; a summary write comes only
\* right after the successful snapshot write of the same list; after a
\* failed snapshot write nothing more is written and the call returns; and
\* a run that has called saveToJSON, from saveToAirtable or from main, is
\* in that call or past it and ends with status 0 whatever the writes did.
C23_SaveNeverRaises ==
    /\ \A i \in Positions("SAVE") :
          i < Len(log) =>
             /\ i + 1 \in SnapshotWrites
             /\ log[i + 1].body = log[i].body
    /\ \A i \in SummaryWrites :
          /\ i > 1
          /\ log[i - 1] = Event("WRITE", log[i].body, "snapshot")
    /\ \A i \in SnapshotWrites :
          log[i].op = "WRITEFAIL" =>
             /\ i = Len(log)
             /\ SummaryWrites = {}
             /\ summary = NoFile
             /\ pc \in {"saved", "exit"}
    /\ Positions("SAVE") # {} =>
          /\ pc \in {"jsonSnapshot", "jsonSummary", "saved", "exit"}
          /\ pc = "jsonSnapshot" <=> SnapshotWrites = {}
          /\ pc = "jsonSummary" =>
                SummaryWrites = {} /\ log[Len(log)].op = "WRITE"
          /\ pc = "exit" <=> exitStatus = 0
          /\ exitStatus \in {-1, 0}

\* A run with the API key whose snapshot write failed after a create
\* request: no summary was written and the process ended with status 0.
C23_Witness ==
    /\ pc = "exit"
    /\ exitStatus = 0
    /\ Positions("POST") # {}
    /\ Positions("SAVE") # {}
    /\ log[Len(log)] = Event("WRITEFAIL", data, "snapshot")
    /\ summary = NoFile

====
